---- MODULE Spec2Model ----
(***************************************************************************)
(* State-machine model of the avatar agent of packages/backend/avatar_agent *)
(* (video_agent.py, avatar_config.py, beyond_presence.py).                  *)
(*                                                                          *)
(* The agent runs on one asyncio event loop.  A coroutine runs atomically   *)
(* from one suspension point (an await that really suspends: a sleep, a     *)
(* wait for another task, external I/O) to the next, so every action below  *)
(* is one such atomic stretch of code.  Two tasks exist: the main task,     *)
(* which calls the agent's coroutines one after the other (run(), or a      *)
(* caller such as the test-suite that drives the methods directly), and the *)
(* quality monitor task.  Time is wall-clock time in milliseconds.          *)
(*                                                                          *)
(* SpecExpr, SpecMon and SpecChat drive the methods of a constructed agent  *)
(* as a caller does; SpecRun is the process from the start of main().       *)
(***************************************************************************)
EXTENDS Integers, Sequences, FiniteSets, TLC

VARIABLES
    clock,                   \* time.time(), in ms
    pc,                      \* where the main task is suspended
    room,                    \* self.room and its connection state
    avatar_session,          \* self.avatar_session: "None" or "Session"
    connected,               \* AvatarSession.connected
    animation_quality,       \* AvatarSession.animation_quality
    current_expression,      \* self.current_expression
    last_expression_change,  \* self.last_expression_change, in ms
    pending,                 \* locals of the suspended set_expression call
    quality_monitor_task,    \* self.quality_monitor_task: "None" or "Task"
    mon_pc,                  \* where the monitor task is suspended
    cancel_requested,        \* Task.cancel() was called on the monitor task
    bitrate,                 \* monitor local: last observed bitrate
    fps,                     \* monitor local: last observed fps
    quality_arg,             \* argument of the monitor's suspended set_animation_quality call
    last_call,               \* history: the most recent expression request
    last_applied,            \* history: the most recent applied transition
    poll_log,                \* history: the last completed polls of the monitor
    teardown,                \* history: the teardown steps, in order of occurrence
    cancelled_in,            \* history: where the monitor was suspended when cancelled
    env,                     \* os.environ: the required configuration values
    counselor_category,      \* self.counselor_category
    phase,                   \* the statement of main() / run() the main task is in
    error,                   \* the exception propagating out of run()'s try block
    exit_status,             \* how the process ended
    connect_attempts,        \* history: calls of room.connect / avatar_session.connect
    conversation_history,    \* self.conversation_history
    full_message,            \* local of the suspended _get_gemini_response call
    requests,                \* history: the arguments of chat.send_message, in order
    last_reply,              \* history: what the last _get_gemini_response call did
    answers,                 \* history: how each completed chat.send_message ended
    session_call,            \* history: the last call a caller made on the AvatarSession
    spoken,                  \* history: the audio AvatarSession.speak has played
    audio_tasks              \* the _handle_audio_track tasks and where each is

vars == <<clock, pc, room, avatar_session, connected, animation_quality,
          current_expression, last_expression_change, pending,
          quality_monitor_task, mon_pc, cancel_requested, bitrate, fps,
          quality_arg, last_call, last_applied, poll_log, teardown,
          cancelled_in, env, counselor_category, phase, error, exit_status,
          connect_attempts, conversation_history, full_message, requests,
          last_reply, answers, session_call, spoken, audio_tasks>>

exprVars == <<current_expression, last_expression_change, pending, last_call, last_applied>>
sessVars == <<avatar_session, connected>>
monVars  == <<quality_monitor_task, mon_pc, cancel_requested, bitrate, fps,
              quality_arg, animation_quality, poll_log, cancelled_in>>
mainVars == <<env, counselor_category, phase, error, exit_status, connect_attempts>>
chatVars == <<conversation_history, full_message, requests, last_reply, answers>>
auxVars  == <<session_call, spoken, audio_tasks>>

(***************************************************************************)
(* Bounds of the model.                                                      *)
(***************************************************************************)
StartTime == 3000
MaxTime == 7000
MaxPollLog == 2

TickSteps == {600, 1000}

Min(a, b) == IF a < b THEN a ELSE b
Max(a, b) == IF a > b THEN a ELSE b

(***************************************************************************)
(* avatar_config.py                                                          *)
(***************************************************************************)
SUPPORTIVE == "supportive"
CONCERNED == "concerned"
ENCOURAGING == "encouraging"
NEUTRAL_LISTENING == "neutral_listening"

EmotionalExpression == {SUPPORTIVE, CONCERNED, ENCOURAGING, NEUTRAL_LISTENING}

TransitionDurationMs == 400
MinIntervalMs == 3000
BitrateThresholdLow == 500
FpsThresholdLow == 20
ReduceSecondaryAnimations == TRUE

CRISIS_KEYWORDS ==
    << "suicide", "suicidal", "kill myself", "end it all",
       "hurt myself", "self-harm", "don't want to live",
       "no reason to live", "better off dead", "want to die" >>

POSITIVE_KEYWORDS ==
    << "better", "improving", "good", "progress", "proud",
       "accomplished", "success", "happy", "grateful",
       "breakthrough", "healing", "growing" >>

(***************************************************************************)
(* str.lower() and the `in` substring test, on strings.                      *)
(***************************************************************************)
UpperCase == "ABCDEFGHIJKLMNOPQRSTUVWXYZ"
LowerCase == "abcdefghijklmnopqrstuvwxyz"

CharLower(c) ==
    IF \E i \in 1..Len(UpperCase) : SubSeq(UpperCase, i, i) = c
    THEN LET i == CHOOSE j \in 1..Len(UpperCase) : SubSeq(UpperCase, j, j) = c
         IN  SubSeq(LowerCase, i, i)
    ELSE c

RECURSIVE Lower(_)
Lower(s) ==
    IF Len(s) = 0 THEN ""
    ELSE CharLower(SubSeq(s, 1, 1)) \o Lower(SubSeq(s, 2, Len(s)))

Contains(keyword, s) ==
    \E i \in 1..(Len(s) - Len(keyword) + 1) :
        SubSeq(s, i, i + Len(keyword) - 1) = keyword

\* The utterances the main task passes to analyze_sentiment_and_express.
Utterances ==
    { "I'm feeling suicidal",
      "I feel better but I want to die",
      "I'm BETTER OFF DEAD",
      "I'm feeling much better today!",
      "So PROUD of my Progress",
      "I had a quiet day",
      "Goodbye" }

\* send_greeting: the greetings dict and greetings.get(category, default)
greetings ==
    [category \in {"Health", "Career", "Academic", "Financial Aid", "Social",
                   "Personal Development"} |->
        CASE category = "Health" ->
                 "Hi there! I'm here to support your health and wellness. What's on your mind today?"
          [] category = "Career" ->
                 "Hello! I'm excited to help you explore your career path. What brings you in?"
          [] category = "Academic" ->
                 "Hi! I'm here to help with your studies. What can I assist you with today?"
          [] category = "Financial Aid" ->
                 "Hello! I'm here to help you navigate financial aid. What questions do you have?"
          [] category = "Social" ->
                 "Hi! Let's talk about building connections and campus life. What's up?"
          [] category = "Personal Development" ->
                 "Hello! I'm here to support your personal growth journey. What would you like to work on?"]

Greeting(category) ==
    IF category \in DOMAIN greetings THEN greetings[category]
    ELSE "Hello! How can I help you today?"

\* os.getenv("COUNSELOR_CATEGORY", "General")
Categories == {"Health", "General"}

\* every text analyze_sentiment_and_express is called with
Texts == Utterances \cup {Greeting(category) : category \in Categories}

\* text_lower = text.lower(), once per text
text_lower == [text \in Texts |-> Lower(text)]

\* any(keyword in text_lower for keyword in CRISIS_KEYWORDS)
AnyCrisis == [text \in Texts |->
    \E k \in DOMAIN CRISIS_KEYWORDS : Contains(CRISIS_KEYWORDS[k], text_lower[text])]

\* any(keyword in text_lower for keyword in POSITIVE_KEYWORDS)
AnyPositive == [text \in Texts |->
    \E k \in DOMAIN POSITIVE_KEYWORDS : Contains(POSITIVE_KEYWORDS[k], text_lower[text])]

(***************************************************************************)
(* History records.                                                          *)
(***************************************************************************)
NoPending == [expression |-> "none", current_time |-> 0]

NoCall == [op |-> "none", text |-> "", target |-> "none", at |-> 0,
           prev_at |-> -1, prev_target |-> "none", was_connected |-> FALSE,
           outcome |-> "none"]

NoApplied == [at |-> -1, from |-> "none", target |-> "none"]

\* The record of a request for `expression` made now by `op` (with `text`).
Call(op, text, expression, outcome) ==
    [op |-> op, text |-> text, target |-> expression, at |-> clock,
     prev_at |-> last_applied.at, prev_target |-> last_applied.target,
     was_connected |-> (avatar_session # "None" /\ connected),
     outcome |-> outcome]

NoError == [type |-> "none", message |-> ""]

NoReply == [text |-> "", raised |-> FALSE, grown |-> 0]

NoSessionCall == [method |-> "none", audio |-> "", was_connected |-> FALSE,
                  outcome |-> "none", played |-> 0]

(***************************************************************************)
(* The environment and BeyondPresenceAvatarAgent._validate_config.           *)
(* A variable of the environment is unset (os.getenv gives None, written     *)
(* "None"), set to the empty string, or set to a value.                      *)
(***************************************************************************)
\* the keys of required_vars, in the order of the dict
RequiredVars ==
    << "ROOM_NAME", "SESSION_ID", "AVATAR_ID", "BEY_AVATAR_API_KEY",
       "SYSTEM_PROMPT", "LIVEKIT_URL", "LIVEKIT_API_KEY", "LIVEKIT_API_SECRET",
       "GOOGLE_API_KEY" >>

RequiredNames == {RequiredVars[i] : i \in DOMAIN RequiredVars}

EnvValues == {"None", "", "value"}

\* not value
Falsy(value) == value \in {"None", ""}

\* the environment of the callers that construct the agent successfully
FullEnv == [key \in RequiredNames |-> "value"]

\* ', '.join(names)
RECURSIVE Join(_)
Join(names) ==
    IF Len(names) = 0 THEN ""
    ELSE IF Len(names) = 1 THEN names[1]
    ELSE names[1] \o ", " \o Join(Tail(names))

\* variant: the validation stops at the first missing value
missing_first(e) ==
    LET all == SelectSeq(RequiredVars, LAMBDA key : Falsy(e[key]))
    IN  IF Len(all) = 0 THEN all ELSE << all[1] >>

\* missing = [key for key, value in required_vars.items() if not value]
missing(e) == SelectSeq(RequiredVars, LAMBDA key : Falsy(e[key]))

\* the ValueError of _validate_config
MissingError(e) ==
    [type |-> "ValueError",
     message |-> "Missing required environment variables: " \o Join(missing(e))]

(***************************************************************************)
(* BeyondPresenceAvatarAgent.__init__: the agent as its callers have it      *)
(* after a successful construction.                                          *)
(***************************************************************************)
\* the fields set by __init__, and the history variables
Fresh ==
    /\ clock = StartTime
    /\ pc = "idle"
    /\ room = "None"
    /\ avatar_session = "None"
    /\ connected = FALSE
    /\ animation_quality = "high"
    /\ current_expression = NEUTRAL_LISTENING
    /\ last_expression_change = 0
    /\ pending = NoPending
    /\ quality_monitor_task = "None"
    /\ mon_pc = "none"
    /\ cancel_requested = FALSE
    /\ bitrate = 0
    /\ fps = 0
    /\ quality_arg = "none"
    /\ last_call = NoCall
    /\ last_applied = NoApplied
    /\ poll_log = << >>
    /\ teardown = << >>
    /\ cancelled_in = "none"
    /\ error = NoError
    /\ exit_status = "none"
    /\ connect_attempts = [room |-> 0, avatar |-> 0, failed |-> "none"]
    /\ conversation_history = << >>
    /\ full_message = ""
    /\ requests = << >>
    /\ last_reply = NoReply
    /\ answers = << >>
    /\ session_call = NoSessionCall
    /\ spoken = << >>
    /\ audio_tasks = << >>

\* the agent as a caller has it after a successful construction
Init ==
    /\ Fresh
    /\ env = FullEnv
    /\ counselor_category = "General"
    /\ phase = "constructed"

\* the process at the start of main(): any environment
InitMain ==
    /\ Fresh
    /\ env \in [RequiredNames -> EnvValues]
    /\ counselor_category \in Categories
    /\ phase = "start"

(***************************************************************************)
(* Time passes.                                                              *)
(***************************************************************************)
Tick ==
    /\ \E d \in TickSteps :
          /\ clock + d <= MaxTime
          /\ clock' = clock + d
    /\ UNCHANGED <<pc, room, sessVars, monVars, exprVars, teardown>>
    /\ UNCHANGED <<mainVars, chatVars>>
    /\ UNCHANGED auxVars

(***************************************************************************)
(* The avatar rendering session: AvatarSession(...) and connect().           *)
(***************************************************************************)
AttachSession ==
    /\ pc = "idle"
    /\ avatar_session = "None"
    /\ avatar_session' = "Session"
    /\ connected' = FALSE
    /\ UNCHANGED <<clock, pc, room, monVars, exprVars, teardown>>
    /\ UNCHANGED <<mainVars, chatVars>>
    /\ UNCHANGED auxVars

SessionConnect ==
    /\ pc = "idle"
    /\ avatar_session = "Session"
    /\ ~connected
    /\ connected' = TRUE
    /\ UNCHANGED <<clock, pc, room, avatar_session, monVars, exprVars, teardown>>
    /\ UNCHANGED <<mainVars, chatVars>>
    /\ UNCHANGED auxVars

(***************************************************************************)
(* BeyondPresenceAvatarAgent.set_expression                                  *)
(***************************************************************************)
\* variant: the interval taken in seconds against a clock in milliseconds
TooSoonSeconds(current_time) ==
    current_time - last_expression_change < MinIntervalMs \div 1000

\* variant: a request exactly min_interval later is dropped too
TooSoonInclusive(current_time) ==
    current_time - last_expression_change <= MinIntervalMs

\* current_time - self.last_expression_change < min_interval
TooSoon(current_time) ==
    current_time - last_expression_change < MinIntervalMs

\* AvatarSession.set_expression raises RuntimeError before it suspends
SessionSetExpressionRaises == ~connected

\* variant: a call that returns early restarts the interval
SetExpressionRestartsInterval ==
    /\ last_expression_change' = clock
    /\ UNCHANGED <<current_expression, pending, last_applied>>

\* what a call that returns or raises before the transition leaves behind
SetExpressionNotApplied ==
    UNCHANGED <<current_expression, last_expression_change, pending, last_applied>>

\* variant: the two assignments made before the awaited session call
SetExpressionRaisedRecorded(expression, current_time) ==
    /\ current_expression' = expression
    /\ last_expression_change' = current_time
    /\ UNCHANGED <<pending, last_applied>>

\* the awaited session call raised: the exception leaves set_expression
SetExpressionRaised(expression, current_time) ==
    UNCHANGED <<current_expression, last_expression_change, pending, last_applied>>

\* the call up to its first suspension (the transition's sleep) or its return
set_expression(expression, op, text) ==
    IF avatar_session = "None"
    THEN /\ last_call' = Call(op, text, expression, "no_session")
         /\ pc' = "idle"
         /\ SetExpressionNotApplied
    ELSE LET current_time == clock IN
         IF TooSoon(current_time)
         THEN /\ last_call' = Call(op, text, expression, "dropped")
              /\ pc' = "idle"
              /\ SetExpressionNotApplied
         ELSE IF SessionSetExpressionRaises
         THEN /\ last_call' = Call(op, text, expression, "raised")
              /\ pc' = "idle"
              /\ SetExpressionRaised(expression, current_time)
         ELSE /\ last_call' = Call(op, text, expression, "pending")
              /\ pc' = "set_expression"
              /\ pending' = [expression |-> expression, current_time |-> current_time]
              /\ UNCHANGED <<current_expression, last_expression_change, last_applied>>

\* variant: only the expression is recorded
SetExpressionRecordExpressionOnly(p) ==
    /\ current_expression' = p.expression
    /\ UNCHANGED last_expression_change

\* variant: the timestamp read after the awaited transition
SetExpressionRecordAfter(p) ==
    /\ current_expression' = p.expression
    /\ last_expression_change' = clock'

\* the two assignments after the awaited transition
SetExpressionRecord(p) ==
    /\ current_expression' = p.expression
    /\ last_expression_change' = p.current_time

CallSetExpression ==
    /\ pc = "idle"
    /\ \E expression \in EmotionalExpression :
          set_expression(expression, "set_expression", "")
    /\ UNCHANGED <<clock, room, sessVars, monVars, teardown>>
    /\ UNCHANGED <<mainVars, chatVars>>
    /\ UNCHANGED auxVars

\* the transition's sleep is over: the call resumes, records and returns
SetExpressionResume ==
    /\ pc = "set_expression"
    /\ clock' = Min(Max(clock, pending.current_time + TransitionDurationMs), Max(clock, MaxTime))
    /\ SetExpressionRecord(pending)
    /\ last_applied' = [at |-> pending.current_time, from |-> current_expression,
                         target |-> pending.expression]
    /\ last_call' = [last_call EXCEPT !.outcome = "applied"]
    /\ pending' = NoPending
    /\ pc' = "idle"
    /\ UNCHANGED <<room, sessVars, monVars, teardown>>
    /\ UNCHANGED <<mainVars, chatVars>>
    /\ UNCHANGED auxVars

(***************************************************************************)
(* BeyondPresenceAvatarAgent.analyze_sentiment_and_express                   *)
(***************************************************************************)
\* variant: the positive keywords tested before the crisis keywords
analyze_positive_first(text) ==
    IF AnyPositive[text]
    THEN set_expression(ENCOURAGING, "analyze", text)
    ELSE IF AnyCrisis[text]
    THEN set_expression(CONCERNED, "analyze", text)
    ELSE IF current_expression # SUPPORTIVE
    THEN set_expression(SUPPORTIVE, "analyze", text)
    ELSE /\ last_call' = Call("analyze", text, "none", "no_request")
         /\ pc' = "idle"
         /\ SetExpressionNotApplied

analyze_sentiment_and_express(text) ==
    IF AnyCrisis[text]
    THEN set_expression(CONCERNED, "analyze", text)
    ELSE IF AnyPositive[text]
    THEN set_expression(ENCOURAGING, "analyze", text)
    ELSE IF current_expression # SUPPORTIVE
    THEN set_expression(SUPPORTIVE, "analyze", text)
    ELSE /\ last_call' = Call("analyze", text, "none", "no_request")
         /\ pc' = "idle"
         /\ SetExpressionNotApplied

CallAnalyze ==
    /\ pc = "idle"
    /\ \E text \in Utterances : analyze_sentiment_and_express(text)
    /\ UNCHANGED <<clock, room, sessVars, monVars, teardown>>
    /\ UNCHANGED <<mainVars, chatVars>>
    /\ UNCHANGED auxVars

NextExpr ==
    \/ Tick
    \/ AttachSession
    \/ SessionConnect
    \/ CallSetExpression
    \/ CallAnalyze
    \/ SetExpressionResume

SpecExpr == Init /\ [][NextExpr]_vars

(***************************************************************************)
(* connect_to_livekit and the creation of the monitor task, as run() and     *)
(* the callers of the agent order them: the task is created once the avatar  *)
(* session is connected.                                                     *)
(***************************************************************************)
ConnectToLivekit ==
    /\ pc = "idle"
    /\ room = "None"
    /\ room' = "connected"
    /\ UNCHANGED <<clock, pc, sessVars, monVars, exprVars, teardown>>
    /\ UNCHANGED <<mainVars, chatVars>>
    /\ UNCHANGED auxVars

StartMonitor ==
    /\ pc = "idle"
    /\ quality_monitor_task = "None"
    /\ avatar_session = "Session"
    /\ connected
    /\ quality_monitor_task' = "Task"
    /\ mon_pc' = "created"
    /\ UNCHANGED <<clock, pc, room, sessVars, exprVars, teardown, cancel_requested,
                   bitrate, fps, quality_arg, animation_quality, poll_log, cancelled_in>>
    /\ UNCHANGED <<mainVars, chatVars>>
    /\ UNCHANGED auxVars

(***************************************************************************)
(* BeyondPresenceAvatarAgent.monitor_video_quality                           *)
(*                                                                           *)
(* The task is suspended in one of its awaits: "created" (not yet run),      *)
(* "get_stats", "set_animation_quality", "sleep" (the sleep closing a        *)
(* poll, or the one taken when there is no session), "handler_sleep" (the    *)
(* sleep of the exception handler).  The statistics and a failure of the     *)
(* rendering backend are inputs.  Once cancel() was called the task's next   *)
(* step is the CancelledError, whatever it awaits.                           *)
(***************************************************************************)
DefaultBitrate == 2000
DefaultFps == 30

StatsInputs ==
    { <<400, 18>>, <<2000, 30>>, <<400, 30>>, <<2000, 18>>, <<500, 20>>,
      <<1500, 30>>, <<-1, 18>>, <<-1, -1>> }

\* stats.get(key, default): a negative entry stands for a missing key
StatsGet(value, default) == IF value < 0 THEN default ELSE value

\* variant: `and` in place of `or`
LowQualityBoth(b, f) == b < BitrateThresholdLow /\ f < FpsThresholdLow

\* bitrate < bitrate_threshold_low or fps < fps_threshold_low
LowQuality(b, f) == b < BitrateThresholdLow \/ f < FpsThresholdLow

\* the poll_log with one more poll, the oldest dropped when it is full; the
\* history is kept for the callers that start the monitor themselves, not
\* under main()
Logged(b, f, result) ==
    LET entry == [bitrate |-> b, fps |-> f, result |-> result]
    IN  IF phase # "constructed" THEN poll_log
        ELSE IF Len(poll_log) < MaxPollLog THEN Append(poll_log, entry)
        ELSE Append(Tail(poll_log), entry)

\* top of the while loop, up to the first await
MonitorLoopTop ==
    IF avatar_session = "None"
    THEN mon_pc' = "sleep"
    ELSE mon_pc' = "get_stats"

\* variant: the exception ends the task
MonitorHandlerExits ==
    /\ mon_pc' = "done"
    /\ poll_log' = Logged(bitrate, fps, "raised")

\* except Exception: log, then sleep before the next iteration
MonitorHandler ==
    /\ mon_pc' = "handler_sleep"
    /\ poll_log' = Logged(bitrate, fps, "raised")

MonitorStart ==
    /\ mon_pc = "created"
    /\ ~cancel_requested
    /\ MonitorLoopTop
    /\ UNCHANGED <<clock, pc, room, sessVars, exprVars, teardown, quality_monitor_task,
                   cancel_requested, bitrate, fps, quality_arg, animation_quality, poll_log,
                   cancelled_in>>
    /\ UNCHANGED <<mainVars, chatVars>>
    /\ UNCHANGED auxVars

MonitorWake ==
    /\ mon_pc \in {"sleep", "handler_sleep"}
    /\ ~cancel_requested
    /\ MonitorLoopTop
    /\ UNCHANGED <<clock, pc, room, sessVars, exprVars, teardown, quality_monitor_task,
                   cancel_requested, bitrate, fps, quality_arg, animation_quality, poll_log,
                   cancelled_in>>
    /\ UNCHANGED <<mainVars, chatVars>>
    /\ UNCHANGED auxVars

\* get_stats returned: read the two values, decide, call set_animation_quality
MonitorGetStats ==
    /\ mon_pc = "get_stats"
    /\ ~cancel_requested
    /\ \E stats \in StatsInputs :
          /\ bitrate' = StatsGet(stats[1], DefaultBitrate)
          /\ fps' = StatsGet(stats[2], DefaultFps)
    /\ IF LowQuality(bitrate', fps')
       THEN IF ReduceSecondaryAnimations
            THEN /\ quality_arg' = "low"
                 /\ mon_pc' = "set_animation_quality"
                 /\ poll_log' = poll_log
            ELSE /\ quality_arg' = quality_arg
                 /\ mon_pc' = "sleep"
                 /\ poll_log' = Logged(bitrate', fps', animation_quality)
       ELSE /\ quality_arg' = "high"
            /\ mon_pc' = "set_animation_quality"
            /\ poll_log' = poll_log
    /\ UNCHANGED <<clock, pc, room, sessVars, exprVars, teardown, quality_monitor_task,
                   cancel_requested, animation_quality, cancelled_in>>
    /\ UNCHANGED <<mainVars, chatVars>>
    /\ UNCHANGED auxVars

MonitorGetStatsRaises ==
    /\ mon_pc = "get_stats"
    /\ ~cancel_requested
    /\ MonitorHandler
    /\ UNCHANGED <<clock, pc, room, sessVars, exprVars, teardown, quality_monitor_task,
                   cancel_requested, bitrate, fps, quality_arg, animation_quality,
                   cancelled_in>>
    /\ UNCHANGED <<mainVars, chatVars>>
    /\ UNCHANGED auxVars

\* AvatarSession.set_animation_quality, then the sleep closing the poll
MonitorSetQuality ==
    /\ mon_pc = "set_animation_quality"
    /\ ~cancel_requested
    /\ IF quality_arg \notin {"high", "medium", "low"}
       THEN /\ MonitorHandler
            /\ animation_quality' = animation_quality
       ELSE /\ animation_quality' = quality_arg
            /\ mon_pc' = "sleep"
            /\ poll_log' = Logged(bitrate, fps, quality_arg)
    /\ UNCHANGED <<clock, pc, room, sessVars, exprVars, teardown, quality_monitor_task,
                   cancel_requested, bitrate, fps, quality_arg, cancelled_in>>
    /\ UNCHANGED <<mainVars, chatVars>>
    /\ UNCHANGED auxVars

MonitorSetQualityRaises ==
    /\ mon_pc = "set_animation_quality"
    /\ ~cancel_requested
    /\ MonitorHandler
    /\ UNCHANGED <<clock, pc, room, sessVars, exprVars, teardown, quality_monitor_task,
                   cancel_requested, bitrate, fps, quality_arg, animation_quality,
                   cancelled_in>>
    /\ UNCHANGED <<mainVars, chatVars>>
    /\ UNCHANGED auxVars

\* variant: only the awaits of the try block take the CancelledError
CancelPointsInTry == {"get_stats", "set_animation_quality", "sleep"}

\* the awaits at which the task takes the CancelledError
CancelPoints == {"created", "get_stats", "set_animation_quality", "sleep", "handler_sleep"}

\* the CancelledError: caught in the try block (break), or leaving the
\* handler's sleep or the not yet started task; either way the task ends
MonitorCancelled ==
    /\ cancel_requested
    /\ mon_pc \in CancelPoints
    /\ mon_pc' = "done"
    /\ teardown' = Append(teardown, "monitor_done")
    /\ UNCHANGED <<clock, pc, room, sessVars, exprVars, quality_monitor_task,
                   cancel_requested, bitrate, fps, quality_arg, animation_quality, poll_log,
                   cancelled_in>>
    /\ UNCHANGED <<mainVars, chatVars>>
    /\ UNCHANGED auxVars

MonitorStep ==
    \/ MonitorStart
    \/ MonitorWake
    \/ MonitorGetStats
    \/ MonitorGetStatsRaises
    \/ MonitorSetQuality
    \/ MonitorSetQualityRaises
    \/ MonitorCancelled

(***************************************************************************)
(* BeyondPresenceAvatarAgent.cleanup                                         *)
(*                                                                           *)
(* The disconnects of the rendering session and of the media room are        *)
(* external calls: each returns or raises.  No statement of cleanup catches  *)
(* anything but the CancelledError of the awaited monitor task.              *)
(***************************************************************************)
CallCleanup ==
    /\ pc = "idle"
    /\ pc' = "cleanup_monitor"
    /\ UNCHANGED <<clock, room, sessVars, monVars, exprVars, teardown>>
    /\ UNCHANGED <<mainVars, chatVars>>
    /\ UNCHANGED auxVars

\* if self.quality_monitor_task: cancel it and await it
CleanupCancelMonitor ==
    /\ pc = "cleanup_monitor"
    /\ IF quality_monitor_task # "None"
       THEN /\ cancel_requested' = TRUE
            /\ cancelled_in' = mon_pc
            /\ teardown' = Append(teardown, "cancel")
            /\ pc' = "cleanup_await_monitor"
       ELSE /\ pc' = "cleanup_avatar"
            /\ UNCHANGED <<cancel_requested, cancelled_in, teardown>>
    /\ UNCHANGED <<clock, room, sessVars, exprVars, quality_monitor_task, mon_pc,
                   bitrate, fps, quality_arg, animation_quality, poll_log>>
    /\ UNCHANGED <<mainVars, chatVars>>
    /\ UNCHANGED auxVars

\* variant: the cancelled task is not awaited
MonitorTaskAbandoned == TRUE

\* await self.quality_monitor_task returns (or raises CancelledError) once
\* the task has ended
MonitorTaskEnded == mon_pc = "done"

CleanupAwaitMonitor ==
    /\ pc = "cleanup_await_monitor"
    /\ MonitorTaskEnded
    /\ teardown' = Append(teardown, "awaited")
    /\ pc' = "cleanup_avatar"
    /\ UNCHANGED <<clock, room, sessVars, monVars, exprVars>>
    /\ UNCHANGED <<mainVars, chatVars>>
    /\ UNCHANGED auxVars

\* if self.avatar_session: AvatarSession.disconnect up to its sleep
CleanupAvatarDisconnect ==
    /\ pc = "cleanup_avatar"
    /\ IF avatar_session # "None"
       THEN /\ connected' = FALSE
            /\ teardown' = Append(teardown, "avatar_disconnect")
            /\ pc' = "cleanup_avatar_disconnecting"
       ELSE /\ pc' = "cleanup_room"
            /\ UNCHANGED <<connected, teardown>>
    /\ UNCHANGED <<clock, room, avatar_session, monVars, exprVars>>
    /\ UNCHANGED <<mainVars, chatVars>>
    /\ UNCHANGED auxVars

CleanupAvatarDisconnected ==
    /\ pc = "cleanup_avatar_disconnecting"
    /\ teardown' = Append(teardown, "avatar_disconnected")
    /\ pc' = "cleanup_room"
    /\ UNCHANGED <<clock, room, sessVars, monVars, exprVars>>
    /\ UNCHANGED <<mainVars, chatVars>>
    /\ UNCHANGED auxVars

\* the exception leaves cleanup: the statements after line 393 do not run
CleanupAvatarDisconnectRaises ==
    /\ pc = "cleanup_avatar_disconnecting"
    /\ teardown' = Append(teardown, "avatar_disconnect_raised")
    /\ pc' = "raised"
    /\ UNCHANGED <<clock, room, sessVars, monVars, exprVars>>
    /\ UNCHANGED <<mainVars, chatVars>>
    /\ UNCHANGED auxVars

\* if self.room: await self.room.disconnect()
CleanupRoomDisconnect ==
    /\ pc = "cleanup_room"
    /\ IF room # "None"
       THEN /\ teardown' = Append(teardown, "room_disconnect")
            /\ pc' = "cleanup_room_disconnecting"
       ELSE /\ pc' = "done"
            /\ UNCHANGED teardown
    /\ UNCHANGED <<clock, room, sessVars, monVars, exprVars>>
    /\ UNCHANGED <<mainVars, chatVars>>
    /\ UNCHANGED auxVars

CleanupRoomDisconnected ==
    /\ pc = "cleanup_room_disconnecting"
    /\ room' = "disconnected"
    /\ teardown' = Append(teardown, "room_disconnected")
    /\ pc' = "done"
    /\ UNCHANGED <<clock, sessVars, monVars, exprVars>>
    /\ UNCHANGED <<mainVars, chatVars>>
    /\ UNCHANGED auxVars

CleanupRoomDisconnectRaises ==
    /\ pc = "cleanup_room_disconnecting"
    /\ teardown' = Append(teardown, "room_disconnect_raised")
    /\ pc' = "raised"
    /\ UNCHANGED <<clock, room, sessVars, monVars, exprVars>>
    /\ UNCHANGED <<mainVars, chatVars>>
    /\ UNCHANGED auxVars

CleanupStep ==
    \/ CleanupCancelMonitor
    \/ CleanupAwaitMonitor
    \/ CleanupAvatarDisconnect
    \/ CleanupAvatarDisconnected
    \/ CleanupAvatarDisconnectRaises
    \/ CleanupRoomDisconnect
    \/ CleanupRoomDisconnected
    \/ CleanupRoomDisconnectRaises

NextMon ==
    \/ AttachSession
    \/ SessionConnect
    \/ ConnectToLivekit
    \/ StartMonitor
    \/ MonitorStart
    \/ MonitorWake
    \/ MonitorGetStats
    \/ MonitorGetStatsRaises
    \/ MonitorSetQuality
    \/ MonitorSetQualityRaises
    \/ MonitorCancelled
    \/ CallCleanup
    \/ CleanupCancelMonitor
    \/ CleanupAwaitMonitor
    \/ CleanupAvatarDisconnect
    \/ CleanupAvatarDisconnected
    \/ CleanupAvatarDisconnectRaises
    \/ CleanupRoomDisconnect
    \/ CleanupRoomDisconnected
    \/ CleanupRoomDisconnectRaises

SpecMon == Init /\ [][NextMon]_vars

\* The event loop resumes a task whose await is over: sleeps end, calls to
\* the rendering backend return or raise, a cancelled task gets its
\* CancelledError, and the main task goes on when what it awaits is done.
SpecMonFair ==
    /\ SpecMon
    /\ WF_vars(MonitorStep)
    /\ WF_vars(CleanupStep)

(***************************************************************************)
(* BeyondPresenceAvatarAgent._get_gemini_response                            *)
(*                                                                           *)
(* The call runs up to asyncio.to_thread(chat.send_message), where it is     *)
(* suspended until the request returns or raises.  Nothing bounds that wait. *)
(***************************************************************************)
MaxRequests == 3

Messages == {"Message 1", "I need help with stress"}

Replies == {"Response 1", "I understand, how can I help?"}

FallbackReply ==
    "I apologize, I'm having trouble processing that right now. Could you please rephrase?"

\* self.system_prompt = os.getenv("SYSTEM_PROMPT")
system_prompt == env["SYSTEM_PROMPT"]

\* variant: the prompt is sent until the model has replied once
NoReplyYet ==
    \A i \in DOMAIN conversation_history : conversation_history[i].role # "assistant"

\* len(self.conversation_history) == 0
FirstTurn == Len(conversation_history) = 0

\* the f-strings building full_message
FullMessage(message) ==
    IF FirstTurn
    THEN system_prompt \o "\n\nStudent: " \o message
    ELSE "Student: " \o message

\* the call up to the awaited chat.send_message
get_gemini_response(message) ==
    /\ full_message' = FullMessage(message)
    /\ conversation_history' =
           Append(conversation_history, [role |-> "user", content |-> message])
    /\ requests' = Append(requests, FullMessage(message))
    /\ last_reply' = [text |-> "", raised |-> FALSE, grown |-> 1]
    /\ pc' = "send_message"
    /\ UNCHANGED answers

\* variant: the exception is not caught
SendMessageRaisedUncaught ==
    /\ last_reply' = [text |-> "", raised |-> TRUE, grown |-> 1]
    /\ full_message' = ""
    /\ answers' = Append(answers, "failed")
    /\ UNCHANGED <<conversation_history, requests>>

\* chat.send_message returned: record the reply and return its text
SendMessageReturned(response_text) ==
    /\ conversation_history' =
           Append(conversation_history, [role |-> "assistant", content |-> response_text])
    /\ last_reply' = [text |-> response_text, raised |-> FALSE, grown |-> 2]
    /\ full_message' = ""
    /\ answers' = Append(answers, "answered")
    /\ UNCHANGED requests

\* except Exception: log and return the fallback reply
SendMessageRaised ==
    /\ last_reply' = [text |-> FallbackReply, raised |-> TRUE, grown |-> 1]
    /\ full_message' = ""
    /\ answers' = Append(answers, "failed")
    /\ UNCHANGED <<conversation_history, requests>>

\* A caller with a constructed agent and an initialized chat calls
\* _get_gemini_response turn after turn, as the test-suite does.
CallGeminiResponse ==
    /\ pc = "idle"
    /\ phase = "constructed"
    /\ Len(requests) < MaxRequests
    /\ \E message \in Messages : get_gemini_response(message)
    /\ UNCHANGED <<clock, room, sessVars, monVars, exprVars, teardown, mainVars>>
    /\ UNCHANGED auxVars

GeminiReturns ==
    /\ pc = "send_message"
    /\ phase = "constructed"
    /\ \E response_text \in Replies : SendMessageReturned(response_text)
    /\ pc' = "idle"
    /\ UNCHANGED <<clock, room, sessVars, monVars, exprVars, teardown, mainVars>>
    /\ UNCHANGED auxVars

GeminiRaises ==
    /\ pc = "send_message"
    /\ phase = "constructed"
    /\ SendMessageRaised
    /\ pc' = "idle"
    /\ UNCHANGED <<clock, room, sessVars, monVars, exprVars, teardown, mainVars>>
    /\ UNCHANGED auxVars

NextChat ==
    \/ CallGeminiResponse
    \/ GeminiReturns
    \/ GeminiRaises

SpecChat == Init /\ [][NextChat]_vars

(***************************************************************************)
(* main() and BeyondPresenceAvatarAgent.run                                  *)
(*                                                                           *)
(* phase is the statement of main() or run() the main task is in; pc is the  *)
(* await it is suspended in ("idle": the call of that statement returned).   *)
(* The connects, the text generation and the disconnection of the room by    *)
(* its server are inputs: each awaited call returns or raises.               *)
(***************************************************************************)
SettleSleepMs == 2000
LoopSleepMs == 1000

\* the clock after a sleep of d ms (past MaxTime only the order of events counts)
After(d) == Min(clock + d, Max(clock, MaxTime))

\* variant: the process ends with status 0 whatever happened
ExitStatusZero(e) == "0"

\* main(): sys.exit(1) in the except clauses, a plain return otherwise
ExitStatus(e) == IF e.type = "none" THEN "0" ELSE "1"

\* agent = BeyondPresenceAvatarAgent(): _validate_config passes
AgentConstructed ==
    /\ phase = "start"
    /\ Len(missing(env)) = 0
    /\ phase' = "constructed"
    /\ UNCHANGED <<clock, pc, room, sessVars, monVars, exprVars, teardown, chatVars,
                   env, counselor_category, error, exit_status, connect_attempts>>
    /\ UNCHANGED auxVars

\* _validate_config raises; main: except ValueError: sys.exit(1)
ConfigurationError ==
    /\ phase = "start"
    /\ Len(missing(env)) > 0
    /\ error' = MissingError(env)
    /\ exit_status' = ExitStatus(error')
    /\ phase' = "exited"
    /\ UNCHANGED <<clock, pc, room, sessVars, monVars, exprVars, teardown, chatVars,
                   env, counselor_category, connect_attempts>>
    /\ UNCHANGED auxVars

\* variant: the failed call is made again
RunRetries(e) ==
    /\ error' = error
    /\ phase' = "constructed"
    /\ pc' = "idle"

\* variant: the exception leaves run() without the finally clause
RunRaisesWithoutCleanup(e) ==
    /\ error' = [type |-> e, message |-> ""]
    /\ phase' = "exited"
    /\ pc' = "raised"

\* an exception in run()'s try block: except (log, raise), finally cleanup()
RunRaises(e) ==
    /\ error' = [type |-> e, message |-> ""]
    /\ phase' = "cleanup"
    /\ pc' = "cleanup_monitor"

\* run(): connect_to_livekit up to the awaited room.connect
RunConnectToLivekit ==
    /\ phase = "constructed"
    /\ pc = "idle"
    /\ room = "None"
    /\ room' = "created"
    /\ connect_attempts' = [connect_attempts EXCEPT !.room = @ + 1]
    /\ pc' = "room_connect"
    /\ phase' = "connect_to_livekit"
    /\ UNCHANGED <<clock, sessVars, monVars, exprVars, teardown, chatVars,
                   env, counselor_category, error, exit_status>>
    /\ UNCHANGED auxVars

\* room.connect returned; initialize_gemini; initialize_avatar up to the
\* awaited avatar_session.connect
RoomConnected ==
    /\ pc = "room_connect"
    /\ room' = "connected"
    /\ avatar_session' = "Session"
    /\ connected' = FALSE
    /\ connect_attempts' = [connect_attempts EXCEPT !.avatar = @ + 1]
    /\ pc' = "avatar_connect"
    /\ phase' = "initialize_avatar"
    /\ UNCHANGED <<clock, monVars, exprVars, teardown, chatVars,
                   env, counselor_category, error, exit_status>>
    /\ UNCHANGED auxVars

RoomConnectRaises ==
    /\ pc = "room_connect"
    /\ RunRaises("ConnectError")
    /\ connect_attempts' = [connect_attempts EXCEPT !.failed = "room"]
    /\ UNCHANGED <<clock, room, sessVars, monVars, exprVars, teardown, chatVars,
                   env, counselor_category, exit_status>>
    /\ UNCHANGED auxVars

\* room.connect returned and initialize_gemini raises
InitializeGeminiRaises ==
    /\ pc = "room_connect"
    /\ room' = "connected"
    /\ RunRaises("Exception")
    /\ UNCHANGED <<clock, sessVars, monVars, exprVars, teardown, chatVars,
                   env, counselor_category, exit_status, connect_attempts>>
    /\ UNCHANGED auxVars

\* AvatarSession.connect returned
AvatarConnected ==
    /\ pc = "avatar_connect"
    /\ connected' = TRUE
    /\ pc' = "avatar_connected"
    /\ UNCHANGED <<clock, room, avatar_session, monVars, exprVars, teardown, chatVars,
                   mainVars>>
    /\ UNCHANGED auxVars

AvatarConnectRaises ==
    /\ pc = "avatar_connect"
    /\ RunRaises("AvatarConnectionError")
    /\ connect_attempts' = [connect_attempts EXCEPT !.failed = "avatar"]
    /\ UNCHANGED <<clock, room, sessVars, monVars, exprVars, teardown, chatVars,
                   env, counselor_category, exit_status>>
    /\ UNCHANGED auxVars

\* initialize_avatar: await self.set_expression(SUPPORTIVE)
InitialExpression ==
    /\ pc = "avatar_connected"
    /\ set_expression(SUPPORTIVE, "initialize_avatar", "")
    /\ UNCHANGED <<clock, room, sessVars, monVars, teardown, chatVars, mainVars>>
    /\ UNCHANGED auxVars

\* variant: the monitor task created before the initial expression is set
CreateMonitorTaskFirst ==
    /\ phase = "initialize_avatar"
    /\ pc = "avatar_connected"
    /\ quality_monitor_task = "None"
    /\ quality_monitor_task' = "Task"
    /\ mon_pc' = "created"
    /\ UNCHANGED <<clock, pc, room, sessVars, exprVars, teardown, chatVars,
                   cancel_requested, bitrate, fps, quality_arg, animation_quality,
                   poll_log, cancelled_in, mainVars>>
    /\ UNCHANGED auxVars

\* initialize_avatar returned: create the monitor task, then sleep
CreateMonitorTask ==
    /\ phase = "initialize_avatar"
    /\ pc = "idle"
    /\ last_call.outcome # "raised"
    /\ quality_monitor_task' = "Task"
    /\ mon_pc' = "created"
    /\ pc' = "sleep"
    /\ phase' = "wait_for_student"
    /\ UNCHANGED <<clock, room, sessVars, exprVars, teardown, chatVars,
                   cancel_requested, bitrate, fps, quality_arg, animation_quality,
                   poll_log, cancelled_in,
                   env, counselor_category, error, exit_status, connect_attempts>>
    /\ UNCHANGED auxVars

\* the message send_greeting passes to _get_gemini_response
GreetingPrompt(greeting) ==
    "[System: You are starting a counseling session. Greet the student with: '"
        \o greeting \o "']"

\* the sleep is over: send_greeting up to the awaited chat.send_message
SendGreeting ==
    /\ pc = "sleep"
    /\ clock' = After(SettleSleepMs)
    /\ get_gemini_response(GreetingPrompt(Greeting(counselor_category)))
    /\ phase' = "send_greeting"
    /\ UNCHANGED <<room, sessVars, monVars, exprVars, teardown,
                   env, counselor_category, error, exit_status, connect_attempts>>
    /\ UNCHANGED auxVars

\* _get_gemini_response returned to send_greeting (the reply is not used):
\* _publish_text_as_audio(greeting), that is analyze_sentiment_and_express
PublishGreeting ==
    analyze_sentiment_and_express(Greeting(counselor_category))

GreetingReturns ==
    /\ pc = "send_message"
    /\ phase = "send_greeting"
    /\ \E response_text \in Replies : SendMessageReturned(response_text)
    /\ PublishGreeting
    /\ UNCHANGED <<clock, room, sessVars, monVars, teardown, mainVars>>
    /\ UNCHANGED auxVars

GreetingRaises ==
    /\ pc = "send_message"
    /\ phase = "send_greeting"
    /\ SendMessageRaised
    /\ PublishGreeting
    /\ UNCHANGED <<clock, room, sessVars, monVars, teardown, mainVars>>
    /\ UNCHANGED auxVars

\* variant: the loop runs until cleanup is asked for from outside
LoopForever ==
    /\ pc' = "loop_sleep"
    /\ phase' = "loop"

\* while self.room and self.room.connection_state == CONN_CONNECTED:
\*     await asyncio.sleep(1)
\* and, after the loop, the finally clause
LoopTest ==
    IF room = "connected"
    THEN /\ pc' = "loop_sleep"
         /\ phase' = "loop"
    ELSE /\ pc' = "cleanup_monitor"
         /\ phase' = "cleanup"

\* send_greeting returned: the first test of the loop
EnterLoop ==
    /\ phase = "send_greeting"
    /\ pc = "idle"
    /\ last_call.outcome # "raised"
    /\ LoopTest
    /\ UNCHANGED <<clock, room, sessVars, monVars, exprVars, teardown, chatVars,
                   env, counselor_category, error, exit_status, connect_attempts>>
    /\ UNCHANGED auxVars

LoopWake ==
    /\ pc = "loop_sleep"
    /\ clock' = After(LoopSleepMs)
    /\ LoopTest
    /\ UNCHANGED <<room, sessVars, monVars, exprVars, teardown, chatVars,
                   env, counselor_category, error, exit_status, connect_attempts>>
    /\ UNCHANGED auxVars

\* the server or the network ends the room's connection
RoomDisconnects ==
    /\ room = "connected"
    /\ phase # "exited"
    /\ room' = "disconnected"
    /\ UNCHANGED <<clock, pc, sessVars, monVars, exprVars, teardown, chatVars, mainVars>>
    /\ UNCHANGED auxVars

\* cleanup ended: run() returns or raises, main() ends or calls sys.exit(1)
MainExit ==
    /\ phase = "cleanup"
    /\ pc \in {"done", "raised"}
    /\ error' = IF pc = "raised" THEN [type |-> "Exception", message |-> ""] ELSE error
    /\ exit_status' = ExitStatus(error')
    /\ phase' = "exited"
    /\ UNCHANGED <<clock, pc, room, sessVars, monVars, exprVars, teardown, chatVars,
                   env, counselor_category, connect_attempts>>
    /\ UNCHANGED auxVars

\* the steps of main() and run() that follow from the code alone
RunStep ==
    \/ AgentConstructed
    \/ ConfigurationError
    \/ RunConnectToLivekit
    \/ RoomConnected
    \/ RoomConnectRaises
    \/ InitializeGeminiRaises
    \/ AvatarConnected
    \/ AvatarConnectRaises
    \/ InitialExpression
    \/ SetExpressionResume
    \/ CreateMonitorTask
    \/ SendGreeting
    \/ EnterLoop
    \/ LoopWake
    \/ MainExit

NextRun ==
    \/ AgentConstructed
    \/ ConfigurationError
    \/ RunConnectToLivekit
    \/ RoomConnected
    \/ RoomConnectRaises
    \/ InitializeGeminiRaises
    \/ AvatarConnected
    \/ AvatarConnectRaises
    \/ InitialExpression
    \/ SetExpressionResume
    \/ CreateMonitorTask
    \/ SendGreeting
    \/ GreetingReturns
    \/ GreetingRaises
    \/ EnterLoop
    \/ LoopWake
    \/ RoomDisconnects
    \/ MainExit
    \/ MonitorStart
    \/ MonitorWake
    \/ MonitorGetStats
    \/ MonitorGetStatsRaises
    \/ MonitorSetQuality
    \/ MonitorSetQualityRaises
    \/ MonitorCancelled
    \/ CleanupCancelMonitor
    \/ CleanupAwaitMonitor
    \/ CleanupAvatarDisconnect
    \/ CleanupAvatarDisconnected
    \/ CleanupAvatarDisconnectRaises
    \/ CleanupRoomDisconnect
    \/ CleanupRoomDisconnected
    \/ CleanupRoomDisconnectRaises

SpecRun == InitMain /\ [][NextRun]_vars

\* The event loop resumes a task whose await is over: sleeps end, the calls
\* to the media room and to the rendering session return or raise, a
\* cancelled task gets its CancelledError.  Nothing is assumed of the text
\* generation request (GreetingReturns, GreetingRaises), which runs in a
\* worker thread, nor of the room's server (RoomDisconnects).
SpecRunFair ==
    /\ SpecRun
    /\ WF_vars(RunStep)
    /\ WF_vars(MonitorStep)
    /\ WF_vars(CleanupStep)

(***************************************************************************)
(* The room's track_subscribed events and the tasks their handler creates.   *)
(***************************************************************************)
MaxTracks == 1

KIND_AUDIO == "KIND_AUDIO"
KIND_VIDEO == "KIND_VIDEO"
TrackKind == {KIND_AUDIO, KIND_VIDEO}

\* variant: the handler answers the student, which ends in a request for an
\* expression that suspends in the transition
handle_audio_track_expresses(i) ==
    audio_tasks' = [audio_tasks EXCEPT ![i] = "set_expression"]

\* _handle_audio_track: two log lines, no await, the task ends
handle_audio_track(i) ==
    audio_tasks' = [audio_tasks EXCEPT ![i] = "done"]

\* on_track_subscribed, called by the room between two steps of the tasks
TrackSubscribed ==
    /\ room \in {"created", "connected"}
    /\ phase \notin {"cleanup", "exited"}
    /\ Len(audio_tasks) < MaxTracks
    /\ \E kind \in TrackKind :
          IF kind = KIND_AUDIO
          THEN audio_tasks' = Append(audio_tasks, "created")
          ELSE UNCHANGED audio_tasks
    /\ UNCHANGED <<clock, pc, room, sessVars, monVars, exprVars, teardown,
                   mainVars, chatVars, session_call, spoken>>

\* the event loop runs a task created by on_track_subscribed
HandleAudioTrack ==
    /\ \E i \in DOMAIN audio_tasks :
          /\ audio_tasks[i] = "created"
          /\ handle_audio_track(i)
    /\ UNCHANGED <<clock, pc, room, sessVars, monVars, exprVars, teardown,
                   mainVars, chatVars, session_call, spoken>>

NextAgent ==
    \/ NextRun
    \/ TrackSubscribed
    \/ HandleAudioTrack

\* main() with the events of the room
SpecAgent == InitMain /\ [][NextAgent]_vars

(***************************************************************************)
(* AvatarSession (beyond_presence.py), called directly by a caller that      *)
(* holds the session, as the test-suite does: connect, set_expression,       *)
(* speak, disconnect, one call after the other.                              *)
(***************************************************************************)
MaxSpoken == 3

AudioClips == {"clip_a", "clip_b"}

\* the record of a call of `method` made now on the session
SessionCall(method, audio, outcome) ==
    [method |-> method, audio |-> audio, was_connected |-> connected,
     outcome |-> outcome, played |-> Len(spoken)]

\* variant: speak plays whatever the state of the connection
SpeakNeverRaises == FALSE

\* AvatarSession.speak raises RuntimeError before it suspends
SessionSpeakRaises == ~connected

\* AvatarSession.disconnect: self.connected = False, then the cleanup sleep
SessionDisconnect ==
    /\ pc = "idle"
    /\ phase = "constructed"
    /\ avatar_session = "Session"
    /\ connected' = FALSE
    /\ session_call' = SessionCall("disconnect", "", "completed")
    /\ UNCHANGED <<clock, pc, room, avatar_session, monVars, exprVars, teardown,
                   mainVars, chatVars, spoken, audio_tasks>>

\* AvatarSession.set_expression up to the sleep of the transition
SessionSetExpression ==
    /\ pc = "idle"
    /\ phase = "constructed"
    /\ avatar_session = "Session"
    /\ IF SessionSetExpressionRaises
       THEN /\ session_call' = SessionCall("set_expression", "", "raised")
            /\ pc' = "idle"
       ELSE /\ session_call' = SessionCall("set_expression", "", "started")
            /\ pc' = "session_set_expression"
    /\ UNCHANGED <<clock, room, sessVars, monVars, exprVars, teardown,
                   mainVars, chatVars, spoken, audio_tasks>>

\* the sleep of the transition is over
SessionSetExpressionDone ==
    /\ pc = "session_set_expression"
    /\ session_call' = [session_call EXCEPT !.outcome = "completed"]
    /\ pc' = "idle"
    /\ UNCHANGED <<clock, room, sessVars, monVars, exprVars, teardown,
                   mainVars, chatVars, spoken, audio_tasks>>

\* AvatarSession.speak up to the sleep of the playback
SessionSpeak ==
    /\ pc = "idle"
    /\ phase = "constructed"
    /\ avatar_session = "Session"
    /\ Len(spoken) < MaxSpoken
    /\ \E audio_data \in AudioClips :
          IF SessionSpeakRaises
          THEN /\ session_call' = SessionCall("speak", audio_data, "raised")
               /\ pc' = "idle"
          ELSE /\ session_call' = SessionCall("speak", audio_data, "started")
               /\ pc' = "session_speak"
    /\ UNCHANGED <<clock, room, sessVars, monVars, exprVars, teardown,
                   mainVars, chatVars, spoken, audio_tasks>>

\* the playback is over
SessionSpeakDone ==
    /\ pc = "session_speak"
    /\ spoken' = Append(spoken, session_call.audio)
    /\ session_call' = [session_call EXCEPT !.outcome = "completed"]
    /\ pc' = "idle"
    /\ UNCHANGED <<clock, room, sessVars, monVars, exprVars, teardown,
                   mainVars, chatVars, audio_tasks>>

NextSession ==
    \/ AttachSession
    \/ SessionConnect
    \/ SessionDisconnect
    \/ SessionSetExpression
    \/ SessionSetExpressionDone
    \/ SessionSpeak
    \/ SessionSpeakDone

SpecSession == Init /\ [][NextSession]_vars

(***************************************************************************)
(* The whole agent: both tasks and every call of the main task.              *)
(***************************************************************************)
Next ==
    \/ NextExpr
    \/ NextMon
    \/ NextChat
    \/ NextRun
    \/ NextSession
    \/ TrackSubscribed
    \/ HandleAudioTrack

Spec == Init /\ [][Next]_vars

(***************************************************************************)
(* Properties of the expression controller (under SpecExpr).                 *)
(***************************************************************************)
\* the time between the request last_call and the applied transition before it
Gap == last_call.at - last_call.prev_at

\* last_call is a set_expression request made on a connected session
\* after some transition was applied
RequestAfterApplied ==
    /\ last_call.target \in EmotionalExpression
    /\ last_call.was_connected
    /\ last_call.prev_at >= 0

\* C1: the expression analyze_sentiment_and_express requests for a text is
\* CONCERNED if the lower-cased text contains a crisis keyword (also when it
\* contains a positive keyword), else ENCOURAGING if it contains a positive
\* keyword, else SUPPORTIVE (requested unless already the current expression).
C1_SentimentPriority ==
    last_call.op = "analyze" =>
        LET text == last_call.text
            crisis == \E k \in DOMAIN CRISIS_KEYWORDS :
                          Contains(CRISIS_KEYWORDS[k], text_lower[text])
            positive == \E k \in DOMAIN POSITIVE_KEYWORDS :
                          Contains(POSITIVE_KEYWORDS[k], text_lower[text])
        IN  /\ crisis => last_call.target = CONCERNED
            /\ ~crisis /\ positive => last_call.target = ENCOURAGING
            /\ ~crisis /\ ~positive => last_call.target \in {SUPPORTIVE, "none"}
            /\ last_call.target = "none" => last_call.prev_target = SUPPORTIVE
            /\ text = "I feel better but I want to die" => last_call.target = CONCERNED
            /\ text = "I'm BETTER OFF DEAD" => last_call.target = CONCERNED
            /\ text = "So PROUD of my Progress" => last_call.target = ENCOURAGING
            /\ text = "I had a quiet day" => last_call.target \in {SUPPORTIVE, "none"}

\* an utterance with a crisis and a positive keyword was classified and applied
C1_Witness ==
    /\ last_call.op = "analyze"
    /\ last_call.text = "I feel better but I want to die"
    /\ last_call.target = CONCERNED
    /\ last_call.outcome = "applied"
    /\ current_expression = CONCERNED

\* C2: a request made on a connected session less than min_interval after the
\* request of the last applied transition is dropped: nothing is applied, and
\* current_expression stays the target of that earlier transition.
C2_Debounce ==
    (RequestAfterApplied /\ Gap < MinIntervalMs) =>
        /\ last_call.outcome = "dropped"
        /\ pc = "idle"
        /\ current_expression = last_call.prev_target
        /\ last_applied.at = last_call.prev_at
        /\ last_expression_change = last_call.prev_at

\* the second of two requests with different targets, less than min_interval
\* apart, was dropped
C2_Witness ==
    /\ RequestAfterApplied
    /\ Gap > 0
    /\ Gap < MinIntervalMs
    /\ last_call.target # last_call.prev_target
    /\ last_call.outcome = "dropped"
    /\ current_expression = last_call.prev_target

\* C3 as stated: after analyze_sentiment_and_express returns from a call with
\* a crisis text on a connected session, current_expression is CONCERNED,
\* whatever requests preceded it.
C3_CrisisAlwaysConcerned ==
    (/\ last_call.op = "analyze"
     /\ AnyCrisis[last_call.text]
     /\ last_call.was_connected
     /\ pc = "idle") => current_expression = CONCERNED

\* C3 amended: after such a call returns, current_expression is CONCERNED if no
\* transition was applied less than min_interval before the call; otherwise
\* the request is dropped and current_expression is what it was.
C3_CrisisConcernedUnlessDebounced ==
    (/\ last_call.op = "analyze"
     /\ AnyCrisis[last_call.text]
     /\ last_call.was_connected
     /\ pc = "idle") =>
        IF last_call.prev_at < 0 \/ Gap >= MinIntervalMs
        THEN /\ last_call.outcome = "applied"
             /\ current_expression = CONCERNED
        ELSE /\ last_call.outcome = "dropped"
             /\ current_expression = last_call.prev_target

\* a crisis text arrived exactly min_interval after another expression was
\* applied, and CONCERNED was applied
C3_Witness ==
    /\ last_call.op = "analyze"
    /\ AnyCrisis[last_call.text]
    /\ last_call.prev_target \in {ENCOURAGING, SUPPORTIVE}
    /\ Gap = MinIntervalMs
    /\ last_call.outcome = "applied"
    /\ current_expression = CONCERNED
    /\ pc = "idle"

\* C4 as stated: a request whose target is the current expression makes no
\* call to the rendering session and changes neither current_expression nor
\* last_expression_change, so every applied transition changes the expression
\* and only such a transition makes a later request be dropped.
C4_SameTargetIsNoOp ==
    /\ pc = "set_expression" => pending.expression # current_expression
    /\ last_applied.at >= 0 => last_applied.from # last_applied.target
    /\ (last_call.outcome = "dropped" /\ last_call.prev_at >= 0) =>
           last_applied.from # last_applied.target

\* C5: a request on a connected session made more than min_interval after the
\* request of the previous applied transition is applied too, and
\* current_expression is its target when it returns.
C5_DebounceRelease ==
    (RequestAfterApplied /\ Gap > MinIntervalMs) =>
        /\ last_call.outcome \in {"pending", "applied"}
        /\ pc = "idle" =>
              /\ last_call.outcome = "applied"
              /\ current_expression = last_call.target
              /\ last_expression_change = last_call.at
              /\ last_applied.at = last_call.at
              /\ last_applied.from = last_call.prev_target

\* two requests with different targets, more than min_interval apart, were
\* both applied
C5_Witness ==
    /\ RequestAfterApplied
    /\ Gap > MinIntervalMs
    /\ last_call.target # last_call.prev_target
    /\ last_call.outcome = "applied"
    /\ pc = "idle"
    /\ current_expression = last_call.target

\* C6: when the rendering session's set_expression raises, current_expression
\* and last_expression_change are what the last applied transition (or
\* construction) left.
C6_FailureLeavesState ==
    last_call.outcome = "raised" =>
        /\ last_applied.at = last_call.prev_at
        /\ current_expression =
              (IF last_applied.at < 0 THEN NEUTRAL_LISTENING ELSE last_applied.target)
        /\ last_expression_change =
              (IF last_applied.at < 0 THEN 0 ELSE last_applied.at)

\* a request failed in the rendering session
C6_Witness ==
    /\ last_call.outcome = "raised"
    /\ last_call.target # current_expression
    /\ avatar_session = "Session"
    /\ ~connected

(***************************************************************************)
(* Properties of the quality monitor and of teardown (under SpecMon and      *)
(* SpecMonFair).                                                             *)
(***************************************************************************)
\* the quality the claim expects for an observation
ExpectedQuality(b, f) ==
    IF b < BitrateThresholdLow THEN "low"
    ELSE IF f < FpsThresholdLow THEN "low"
    ELSE "high"

\* C7: after every completed poll the session's animation quality is "low" if
\* the bitrate or the fps observed by that poll is below its threshold and
\* "high" otherwise.
C7_QualityFollowsStats ==
    /\ mon_pc = "sleep" => animation_quality = ExpectedQuality(bitrate, fps)
    /\ \A i \in DOMAIN poll_log :
          poll_log[i].result # "raised" =>
              poll_log[i].result = ExpectedQuality(poll_log[i].bitrate, poll_log[i].fps)

\* a poll observing 400 kbps / 18 fps set "low", the next one observing
\* 2000 kbps / 30 fps set "high"
C7_Witness ==
    /\ mon_pc = "sleep"
    /\ Len(poll_log) = 2
    /\ poll_log[1] = [bitrate |-> 400, fps |-> 18, result |-> "low"]
    /\ poll_log[2] = [bitrate |-> 2000, fps |-> 30, result |-> "high"]
    /\ animation_quality = "high"

\* C8: an exception raised by get_stats or set_animation_quality is caught in
\* the monitor: the task ends only when cancelled, the step that handles the
\* exception changes nothing of the main task, of the session or of the
\* expression state, the monitor polls again after the handler's sleep, and
\* as long as it is not cancelled it polls again and again.
C8_MonitorSurvivesExceptions ==
    /\ [](mon_pc = "done" => cancel_requested)
    /\ [][(mon_pc # "handler_sleep" /\ mon_pc' = "handler_sleep") =>
            UNCHANGED <<pc, room, sessVars, exprVars, animation_quality,
                        quality_monitor_task, cancel_requested>>]_vars
    /\ (mon_pc = "handler_sleep") ~> (mon_pc = "get_stats" \/ cancel_requested)
    /\ (quality_monitor_task = "Task") ~> (mon_pc = "get_stats" \/ cancel_requested)
    /\ []<>(mon_pc = "get_stats" \/ cancel_requested \/ quality_monitor_task = "None")

\* a poll raised, and the next poll completed while the main task went on
C8_Witness ==
    /\ Len(poll_log) = 2
    /\ poll_log[1].result = "raised"
    /\ poll_log[2].result \in {"low", "high"}
    /\ mon_pc = "sleep"
    /\ ~cancel_requested
    /\ pc = "idle"

Has(event) == \E i \in DOMAIN teardown : teardown[i] = event

\* every occurrence of `first` in the teardown comes before every `second`
Before(first, second) ==
    \A i, j \in DOMAIN teardown :
        (teardown[i] = first /\ teardown[j] = second) => i < j

\* C9 as stated: whichever way cleanup ends, the disconnect of every component
\* that exists was attempted: a failure of one step does not skip the next.
C9_TeardownBestEffort ==
    pc \in {"done", "raised"} =>
        /\ avatar_session # "None" => Has("avatar_disconnect")
        /\ room # "None" => Has("room_disconnect")

\* C10: in cleanup the monitor is cancelled and has ended before the avatar
\* session's disconnect starts, and that disconnect has finished before the
\* room's disconnect starts.
C10_TeardownOrder ==
    /\ Before("cancel", "monitor_done")
    /\ Before("monitor_done", "awaited")
    /\ Before("awaited", "avatar_disconnect")
    /\ Before("avatar_disconnect", "avatar_disconnected")
    /\ Before("avatar_disconnected", "room_disconnect")
    /\ Before("room_disconnect", "room_disconnected")
    /\ (Has("avatar_disconnect") \/ Has("room_disconnect")) =>
          /\ quality_monitor_task = "None" \/ (Has("awaited") /\ mon_pc = "done")
          /\ mon_pc \in {"none", "done"}
    /\ Has("room_disconnect") =>
          /\ avatar_session = "None" \/ Has("avatar_disconnected")
          /\ pc # "cleanup_avatar_disconnecting"
    /\ pc \in {"cleanup_avatar_disconnecting", "cleanup_room",
               "cleanup_room_disconnecting", "done"} =>
          mon_pc \in {"none", "done"}

\* a cleanup that cancelled a running monitor and disconnected both
C10_Witness ==
    /\ pc = "done"
    /\ teardown = << "cancel", "monitor_done", "awaited", "avatar_disconnect",
                     "avatar_disconnected", "room_disconnect", "room_disconnected" >>

\* C11: once cleanup has cancelled the monitor task, the task ends and cleanup
\* goes on to the disconnect of the avatar session, wherever the task was
\* suspended when it was cancelled: not yet started, in get_stats or
\* set_animation_quality, in the sleep between two polls, or in the sleep of
\* the exception handler after a poll that raised.
C11_CancelledMonitorEnds ==
    /\ [](pc = "cleanup_await_monitor" => cancel_requested)
    /\ \A at \in {"created", "get_stats", "set_animation_quality", "sleep", "handler_sleep"} :
          (pc = "cleanup_await_monitor" /\ cancelled_in = at)
              ~> (mon_pc = "done" /\ Has("awaited") /\ Has("avatar_disconnect"))

\* the monitor was cancelled in the sleep of its exception handler, right
\* after a poll that raised, and cleanup went on to disconnect the avatar
C11_Witness ==
    /\ cancelled_in = "handler_sleep"
    /\ Len(poll_log) > 0
    /\ poll_log[Len(poll_log)].result = "raised"
    /\ mon_pc = "done"
    /\ Has("avatar_disconnect")

(***************************************************************************)
(* Properties of _get_gemini_response (under SpecChat).                      *)
(***************************************************************************)
\* C14 as stated: when a call of _get_gemini_response has returned, the history
\* has grown by exactly two entries, the utterance and then the reply, so
\* between turns its length is even and the roles alternate user, assistant.
C14_HistoryGrowsByTwo ==
    pc = "idle" =>
        /\ last_reply.grown \in {0, 2}
        /\ Len(conversation_history) % 2 = 0
        /\ \A i \in DOMAIN conversation_history :
              conversation_history[i].role = (IF i % 2 = 1 THEN "user" ELSE "assistant")

\* the request starts with the system prompt and the separator of the f-string
HasSystemPrompt(request) ==
    LET prefix == system_prompt \o "\n\nStudent: "
    IN  /\ Len(request) >= Len(prefix)
        /\ SubSeq(request, 1, Len(prefix)) = prefix

\* C20: of the requests sent to the text generation in a session, the first
\* starts with the system prompt and no later one does.
C20_SystemPromptFirstOnly ==
    /\ \A i \in DOMAIN requests : HasSystemPrompt(requests[i]) <=> i = 1
    /\ pc = "send_message" => full_message = requests[Len(requests)]

\* three requests were sent, the first of which failed
C20_Witness ==
    /\ Len(requests) = 3
    /\ HasSystemPrompt(requests[1])
    /\ ~HasSystemPrompt(requests[2])
    /\ ~HasSystemPrompt(requests[3])
    /\ Len(conversation_history) >= 2
    /\ conversation_history[2].role = "user"
    /\ pc = "idle"

Rank(p) ==
    CASE p \in {"start", "constructed"} -> 1
      [] p \in {"connect_to_livekit", "initialize_avatar", "wait_for_student"} -> 2
      [] p = "send_greeting" -> 3
      [] p = "loop" -> 4
      [] p = "cleanup" -> 5
      [] p = "exited" -> 6

\* C12 as stated: the lifecycle only moves forward, the first message of the
\* conversation is the greeting, and once the room is disconnected or an
\* exception has left run()'s try block the process exits.
C12_LifecycleForward ==
    /\ [][Rank(phase') >= Rank(phase)]_vars
    /\ [](Len(conversation_history) > 0 =>
            conversation_history[1].content = GreetingPrompt(Greeting(counselor_category)))
    /\ (room = "disconnected" \/ error.type # "none") ~> (phase = "exited")

\* C13: when the text generation raises, _get_gemini_response returns the
\* fallback reply and no exception reaches send_greeting or run(): the
\* greeting is published, the agent enters its loop, and it leaves the loop
\* for cleanup only when the room is no longer connected.
C13_FallbackOnFailure ==
    /\ [](last_reply.raised => last_reply.text = FallbackReply)
    /\ [][(pc = "send_message" /\ pc' # "send_message" /\ last_reply'.raised) =>
            /\ last_reply'.text = FallbackReply
            /\ phase' = "send_greeting"
            /\ pc' \in {"idle", "set_expression"}
            /\ last_call'.op = "analyze"
            /\ last_call'.text = Greeting(counselor_category)
            /\ error' = NoError]_vars
    /\ [][(last_reply.raised /\ phase = "send_greeting" /\ phase' # phase /\ room = "connected") =>
            (phase' = "loop" /\ pc' = "loop_sleep")]_vars
    /\ [][(last_reply.raised /\ phase # "cleanup" /\ phase' = "cleanup") =>
            (room # "connected" /\ error' = NoError)]_vars

\* the request of the greeting raised; the agent is in its loop
C13_Witness ==
    /\ last_reply.raised
    /\ last_reply.text = FallbackReply
    /\ phase = "loop"
    /\ pc = "loop_sleep"
    /\ room = "connected"
    /\ error = NoError

\* C15 as stated: every call of _get_gemini_response returns, also when the
\* text generation request never completes.
C15_RequestEnds ==
    (pc = "send_message") ~> (pc # "send_message")

\* the required values that are unset or empty in the environment
Absent == {key \in RequiredNames : env[key] = "None" \/ env[key] = ""}

\* C16: with any of the nine required values unset or empty, the construction
\* fails with one ValueError whose message names every such value and no
\* other, before a room or a session exists or a connect was attempted; with
\* all nine present the validation passes.
C16_ValidationNamesAllMissing ==
    /\ phase = "start" => (error = NoError /\ exit_status = "none")
    /\ (phase # "start" /\ Absent = {}) => error.type # "ValueError"
    /\ (phase # "start" /\ Absent # {}) =>
          /\ phase = "exited"
          /\ error.type = "ValueError"
          /\ \A key \in RequiredNames : Contains(key, error.message) <=> key \in Absent
          /\ room = "None"
          /\ avatar_session = "None"
          /\ connect_attempts = [room |-> 0, avatar |-> 0, failed |-> "none"]
          /\ requests = << >>
          /\ teardown = << >>

\* ROOM_NAME empty and AVATAR_ID unset: both are named
C16_Witness ==
    /\ phase = "exited"
    /\ Absent = {"ROOM_NAME", "AVATAR_ID"}
    /\ env["ROOM_NAME"] = ""
    /\ env["AVATAR_ID"] = "None"
    /\ error.message = "Missing required environment variables: ROOM_NAME, AVATAR_ID"

\* C17: the process exits with status 0 when the session ended with the room
\* disconnected and cleanup run to its end, and with status 1 when the
\* configuration is invalid or the connect of the room or of the avatar
\* session failed.
C17_ExitStatus ==
    /\ phase # "exited" => exit_status = "none"
    /\ phase = "exited" =>
          /\ exit_status \in {"0", "1"}
          /\ Absent # {} => exit_status = "1"
          /\ connect_attempts.failed # "none" => exit_status = "1"
          /\ (Len(requests) > 0 /\ pc = "done") =>
                (exit_status = "0" /\ room = "disconnected")
          /\ exit_status = "0" =>
                (Absent = {} /\ connect_attempts.failed = "none" /\ pc = "done")

\* a session that ended cleanly, with status 0
C17_Witness ==
    /\ phase = "exited"
    /\ exit_status = "0"
    /\ Len(requests) > 0
    /\ Has("room_disconnected")

\* C18: each connect is attempted at most once, and after a failed connect no
\* monitor task exists, no greeting was requested or published, and the agent
\* is in cleanup or has exited; a failed room connect leaves the avatar
\* session unconstructed.
C18_ConnectFailureIsFatal ==
    /\ connect_attempts.room <= 1
    /\ connect_attempts.avatar <= 1
    /\ connect_attempts.failed # "none" =>
          /\ phase \in {"cleanup", "exited"}
          /\ quality_monitor_task = "None"
          /\ mon_pc = "none"
          /\ requests = << >>
          /\ conversation_history = << >>
          /\ last_call.op = "none"
    /\ connect_attempts.failed = "room" =>
          (connect_attempts.avatar = 0 /\ avatar_session = "None")

\* the avatar session's connect failed and the agent tore down and exited
C18_Witness ==
    /\ connect_attempts = [room |-> 1, avatar |-> 1, failed |-> "avatar"]
    /\ phase = "exited"
    /\ exit_status = "1"
    /\ teardown = << "avatar_disconnect", "avatar_disconnected",
                     "room_disconnect", "room_disconnected" >>

\* send_greeting has returned to run()
GreetingSent == phase = "loop" \/ (phase = "send_greeting" /\ pc = "idle")

\* the greeting the claim expects for the category of the agent
ExpectedGreeting ==
    IF counselor_category = "Health"
    THEN "Hi there! I'm here to support your health and wellness. What's on your mind today?"
    ELSE "Hello! How can I help you today?"

\* C21 as stated: when send_greeting has returned, the greeting of the
\* agent's category (the generic one for a category not in the table) was
\* sent to the text generation and then that same greeting was rendered as
\* speech by the avatar session, whether the text generation failed or not.
C21_GreetingSentThenSpoken ==
    GreetingSent =>
        /\ Len(requests) = 1
        /\ Contains(ExpectedGreeting, requests[1])
        /\ last_call.op = "analyze"
        /\ last_call.text = ExpectedGreeting
        /\ Len(spoken) > 0
        /\ spoken[Len(spoken)] = ExpectedGreeting

(***************************************************************************)
(* Properties of the AvatarSession (under SpecSession).                      *)
(***************************************************************************)
\* C22: a call of the session's set_expression or speak made while the
\* session is not connected (never connected, or disconnected again) raises
\* at once: it does not suspend in a transition or a playback, and nothing is
\* played; only a call made on a connected session transitions or plays.
C22_NotConnectedFails ==
    /\ [](session_call.method \in {"set_expression", "speak"} =>
            IF session_call.was_connected
            THEN session_call.outcome \in {"started", "completed"}
            ELSE /\ session_call.outcome = "raised"
                 /\ pc = "idle"
                 /\ Len(spoken) = session_call.played)
    /\ [](pc \in {"session_set_expression", "session_speak"} =>
            (session_call.was_connected /\ session_call.outcome = "started"))
    /\ [][spoken' # spoken =>
            (pc = "session_speak" /\ session_call.was_connected
             /\ spoken' = Append(spoken, session_call.audio))]_vars

\* a clip was played, the session was disconnected, and the next speak raised
C22_Witness ==
    /\ session_call.method = "speak"
    /\ session_call.outcome = "raised"
    /\ ~connected
    /\ Len(spoken) = 1
    /\ session_call.played = 1

(***************************************************************************)
(* Properties of the expression controller, continued (under SpecExpr).      *)
(***************************************************************************)
\* C23: a request dropped by the debounce check returns normally (the caller
\* is not suspended in a call of the session and nothing was raised), and as
\* long as it is the last request made, no step changes current_expression or
\* last_expression_change or starts or completes a transition: neither the
\* dropping call itself nor anything later, however much time passes.
C23_DroppedIsForgotten ==
    [][last_call'.outcome = "dropped" =>
          /\ pc' = "idle"
          /\ pending' = NoPending
          /\ UNCHANGED <<current_expression, last_expression_change, pending,
                         last_applied>>]_vars

\* a request for another expression was dropped, min_interval has passed since
\* the last applied transition, and the dropped request is still not applied
C23_Witness ==
    /\ last_call.outcome = "dropped"
    /\ last_call.target # current_expression
    /\ clock - last_expression_change >= MinIntervalMs
    /\ clock > last_call.at
    /\ pc = "idle"
    /\ pending = NoPending

(***************************************************************************)
(* Properties of run(), continued (under SpecRun).                           *)
(***************************************************************************)
\* C24: in run() each connecting step begins only when the one before it is
\* complete.  The rendering session is constructed, and its connect begun,
\* only once the room's connect has returned; the initial request, which is
\* for SUPPORTIVE, is made only on a connected session; the monitor task is
\* created only once that request has been applied and has returned; and the
\* greeting's request is sent only once the room and the session are
\* connected, SUPPORTIVE is applied and the monitor task exists.
C24_ConnectingOrder ==
    /\ [][(avatar_session = "None" /\ avatar_session' # "None") =>
             (pc = "room_connect" /\ room' = "connected"
              /\ pc' = "avatar_connect" /\ ~connected')]_vars
    /\ [][(last_call.op = "none" /\ last_call'.op # "none") =>
             (room # "None" /\ room # "created" /\ avatar_session = "Session"
              /\ connected /\ last_call'.op = "initialize_avatar"
              /\ last_call'.target = SUPPORTIVE
              /\ quality_monitor_task = "None")]_vars
    /\ [][(quality_monitor_task = "None" /\ quality_monitor_task' # "None") =>
             (pc = "idle" /\ pending = NoPending /\ connected
              /\ last_call.outcome = "applied"
              /\ current_expression = SUPPORTIVE
              /\ requests = << >>)]_vars
    /\ [][(Len(requests') > Len(requests)) =>
             (room # "None" /\ room # "created" /\ connected
              /\ current_expression = SUPPORTIVE
              /\ last_applied.target = SUPPORTIVE
              /\ quality_monitor_task = "Task")]_vars

\* the greeting's request is on its way after all four connecting steps
C24_Witness ==
    /\ phase = "send_greeting"
    /\ pc = "send_message"
    /\ Len(requests) = 1
    /\ room = "connected"
    /\ connected
    /\ last_applied.target = SUPPORTIVE
    /\ quality_monitor_task = "Task"

InProgress ==
    (IF pc = "set_expression" THEN 1 ELSE 0)
    + Cardinality({i \in DOMAIN audio_tasks : audio_tasks[i] = "set_expression"})

\* C26: at most one set_expression invocation is in progress at any time, and
\* while one is between its debounce check and its write of
\* last_expression_change no other request is made (none reads
\* last_expression_change): the only step that changes the record of the last
\* request, the pending transition or last_expression_change is the
\* completion of that same invocation.
C26_OneSetExpressionAtATime ==
    /\ [](InProgress <= 1)
    /\ [](pending # NoPending <=> pc = "set_expression")
    /\ [][pending # NoPending =>
            \/ UNCHANGED <<last_call, pending, last_expression_change,
                           current_expression>>
            \/ /\ pending' = NoPending
               /\ last_expression_change' = pending.current_time
               /\ current_expression' = pending.expression
               /\ last_call' = [last_call EXCEPT !.outcome = "applied"]]_vars

\* a task of the track handler exists while the main task is suspended in
\* the transition of set_expression
C26_Witness ==
    /\ pc = "set_expression"
    /\ pending # NoPending
    /\ Len(audio_tasks) > 0
    /\ audio_tasks[1] = "done"

(***************************************************************************)
(* Properties of the monitor task under run() (under SpecRun).               *)
(***************************************************************************)
\* the monitor task is suspended in one of its two calls of the session
Polling == mon_pc \in {"get_stats", "set_animation_quality"}

\* C27: under run() the monitor task is in a call of get_stats or of
\* set_animation_quality only while the session is connected: the task is
\* created only after the session's connect has returned, a call begins only
\* on a connected session that cleanup has not started to disconnect, and
\* once cleanup has called the session's disconnect the task has ended.
C27_MonitorPollsConnectedSession ==
    /\ [](Polling => (avatar_session = "Session" /\ connected
                       /\ ~Has("avatar_disconnect")))
    /\ [](quality_monitor_task # "None" =>
             (avatar_session = "Session"
              /\ (connected \/ Has("avatar_disconnect"))))
    /\ []((Has("avatar_disconnect") /\ quality_monitor_task # "None") =>
             (mon_pc = "done" /\ Has("awaited")))
    /\ [][(Polling' /\ mon_pc' # mon_pc) =>
             (connected /\ ~cancel_requested /\ ~Has("avatar_disconnect"))]_vars

\* cleanup began while the monitor was in get_stats; the task had ended when
\* the session was disconnected
C27_Witness ==
    /\ cancelled_in = "get_stats"
    /\ mon_pc = "done"
    /\ Has("avatar_disconnect")
    /\ ~connected

(***************************************************************************)
(* Properties of _get_gemini_response, continued (under SpecChat).           *)
(***************************************************************************)
\* C28 as stated: every request that the text generation answered either
\* starts with the system prompt itself or comes after an answered request
\* that did, so a first request that fails does not lose the prompt.
C28_PromptReachesTheModel ==
    \A i \in DOMAIN answers :
        answers[i] = "answered" =>
            \E j \in 1..i : answers[j] = "answered" /\ HasSystemPrompt(requests[j])

(***************************************************************************)
(* Properties of run() and cleanup (under SpecRun).                          *)
(***************************************************************************)
\* how many times cleanup has made the step `event`
Times(event) == Cardinality({i \in DOMAIN teardown : teardown[i] = event})

\* C29: once run() has started, the process ends only through cleanup, which
\* is entered once, at its first statement, and never again; each of its
\* three steps is made at most once, and only on a component that exists: the
\* monitor task is cancelled if and only if it was created, the session's
\* disconnect is called only if the session was constructed, the room's only
\* if the room was created.
C29_CleanupOnceOnCreated ==
    /\ [][(phase # "cleanup" /\ phase' = "cleanup") =>
             (pc' = "cleanup_monitor" /\ teardown = << >> /\ teardown' = << >>
              /\ phase \notin {"start", "constructed", "exited"})]_vars
    /\ [][(phase # "exited" /\ phase' = "exited") =>
             \/ phase = "start"
             \/ (phase = "cleanup" /\ pc \in {"done", "raised"})]_vars
    /\ [][phase = "exited" => phase' = "exited"]_vars
    /\ [](teardown # << >> => phase \in {"cleanup", "exited"})
    /\ [](Times("cancel") <= 1 /\ Times("avatar_disconnect") <= 1
           /\ Times("room_disconnect") <= 1)
    /\ [](Has("cancel") => quality_monitor_task # "None")
    /\ [](Has("avatar_disconnect") => avatar_session # "None")
    /\ [](Has("room_disconnect") => room # "None")
    /\ []((phase \in {"cleanup", "exited"} /\ phase # "start"
            /\ pc \notin {"cleanup_monitor", "idle"} /\ teardown # << >>) =>
             (Has("cancel") <=> quality_monitor_task # "None"))

\* the session's connect failed: cleanup disconnected the session and the
\* room, and had no monitor task to cancel
C29_Witness ==
    /\ phase = "exited"
    /\ error.type = "AvatarConnectionError"
    /\ quality_monitor_task = "None"
    /\ ~Has("cancel")
    /\ Times("avatar_disconnect") = 1
    /\ Times("room_disconnect") = 1

\* C30: current_expression is NEUTRAL_LISTENING as long as no transition has
\* completed on the session, and afterwards the target of the last completed
\* one; last_expression_change is 0 until then, and afterwards the time of
\* the request of that transition.  The two fields change only in the step
\* in which set_expression resumes from the session's transition, which
\* writes both from the same request; no step of the monitor task changes
\* either.
C30_ExpressionFollowsTransitions ==
    /\ [](current_expression =
             IF last_applied.at < 0 THEN NEUTRAL_LISTENING ELSE last_applied.target)
    /\ [](last_expression_change =
             IF last_applied.at < 0 THEN 0 ELSE last_applied.at)
    /\ [][(current_expression' # current_expression
            \/ last_expression_change' # last_expression_change) =>
             /\ pc = "set_expression"
             /\ pc' = "idle"
             /\ current_expression' = pending.expression
             /\ last_expression_change' = pending.current_time
             /\ last_applied'.target = pending.expression
             /\ last_applied'.at = pending.current_time
             /\ mon_pc' = mon_pc]_vars
    /\ [][(mon_pc' # mon_pc \/ animation_quality' # animation_quality) =>
             UNCHANGED <<current_expression, last_expression_change, pending,
                         last_applied>>]_vars

\* the monitor has lowered the animation quality after the initial
\* transition; the expression is still the target of that transition
C30_Witness ==
    /\ last_applied.target = SUPPORTIVE
    /\ last_applied.from = NEUTRAL_LISTENING
    /\ current_expression = SUPPORTIVE
    /\ animation_quality = "low"
    /\ mon_pc = "sleep"

====
